---- MODULE Spec2Model ----
(***************************************************************************)
(* Authentication, session lifecycle and account management of the CRM    *)
(* backend: the user table, the refresh-token ledger and the review       *)
(* table, and the request handlers signup, login, logout, refresh,        *)
(* Google sign-in, profile, profile update, change password, scrape and   *)
(* delete-account, each as the sequence of datastore statements/commits   *)
(* it performs.                                                            *)
(*                                                                         *)
(* Time is counted in minutes.  A user id (uuid4 in the code) is the      *)
(* index of the user's row in `users`; a refresh token value (uuid4) is   *)
(* the number of the token in order of generation.  An access token is    *)
(* the record of what jwt.encode signs: its payload and the key.          *)
(*                                                                         *)
(* Every request has its own session (get_db).  A step of a handler is    *)
(* one group of statements up to and including a commit, and sees the     *)
(* rows committed so far.  A handler runs within one instant of the       *)
(* clock, and its response is delivered before any other statement runs.  *)
(*                                                                         *)
(* The specifications are built from the same actions and differ in the   *)
(* endpoints that are called:                                              *)
(*   Spec           session lifecycle, requests one after another;        *)
(*   ConcSpec       the same, the steps of two requests interleaved;      *)
(*   AccountSpec    account management with Google sign-in, clock fixed;  *)
(*   ProtectedSpec  the bearer-protected endpoints, with the clock;       *)
(*   IdentitySpec   the endpoints that write emails and usernames, the    *)
(*                  steps of two requests interleaved;                     *)
(*   CredentialSpec the ways to obtain tokens and to change the password,  *)
(*                  clock fixed;                                           *)
(*   LedgerSpec     create_refresh_token with uuid4's value as an input;   *)
(*   FunctionSpec   create_access_token, verify_access_token and the       *)
(*                  username generator over enumerated inputs and tables.  *)
(***************************************************************************)
EXTENDS Integers, Sequences, FiniteSets, Bags, TLC

\* ------------------------------------------------------------------ bounds
MaxUsers == 2       \* user rows ever created
MaxTokens == 3      \* refresh tokens ever generated
MaxReviews == 1     \* review rows held at once
Procs == {1, 2}     \* requests that can be in flight at once
Instants == {0, 30, 10080}   \* the moments the clock is observed at

\* ------------------------------------------------------- program constants
JWT_SECRET_KEY == "your-secret-key-change-in-production"
JWT_ALGORITHM == "HS256"
JWT_ACCESS_TOKEN_EXPIRE_MINUTES == 30
JWT_REFRESH_TOKEN_EXPIRE_DAYS == 7

\* --------------------------------------------------------------- the inputs
Name(b, k) == [base |-> b, n |-> k]
Addr(b, d) == [local |-> Name(b, 0), domain |-> d]
Emails == {Addr("jane", "x.com"), Addr("bob", "x.com")}
Usernames == {Name("jane", 0), Name("bob", 0)}
Passwords == {"pw1", "pw2"}
SignupPasswords == {"pw1"}
NewPasswords == {"pw2"}
\* what verify_google_token returns for the ID tokens presented
GoogleIdentities ==
    {[google_id |-> "g1", email |-> Addr("jane", "x.com"), email_verified |-> TRUE],
     [google_id |-> "g1", email |-> Addr("jane", "x.com"), email_verified |-> FALSE],
     [google_id |-> "g2", email |-> Addr("jane", "x.com"), email_verified |-> TRUE],
     [google_id |-> "g1", email |-> Addr("bob", "x.com"), email_verified |-> TRUE]}

\* ------------------------------------------------------------ absent values
NoUser == 0
NoToken == 0
UnknownToken == NoToken   \* a value no row of the ledger holds
NoEmail == [local |-> Name("", 0), domain |-> ""]
NoName == Name("", 0)
NoHash == [scheme |-> "none", of |-> ""]
NoGoogleId == ""
NoClaims == [type |-> "none"]
NoResult == ""

\* ------------------------------------------------- responses (code's text)
OK == "ok"
LoggedOut == "Successfully logged out"
DuplicateEmail == "Email already exists."
DuplicateUsername == "Username already exists."
SignupFailed == "Signup failed"
AccountNotFound == "Account not found"
InvalidCredentials == "Invalid password"
InvalidOrExpiredToken == "Invalid or expired refresh token"
Unauthorized == "Authentication failed"
InvalidToken == "Invalid or expired token"
WrongTokenType == "Invalid token type"
ProfileNotFound == "User profile not found"
DeletionFailed == "Account deletion failed"
IncorrectCurrentPassword == "Current password is incorrect"
PasswordChanged == "Password changed successfully"
UpdateFailed == "Profile update failed"
UnverifiedEmail == "Google email not verified"
InternalError == "Internal Server Error"
Scraped == "Successfully scraped reviews"
DuplicateToken == "IntegrityError"   \* raised by the commit of a duplicate value
AccountDeleted == "Account deleted successfully"

VARIABLES
    users,      \* table users: sequence of rows, the id is the index
    tokens,     \* table refresh_tokens: set of rows
    nextTok,    \* the next refresh token value uuid4 yields
    issued,     \* access tokens signed so far (held by clients)
    now,        \* datetime.utcnow(), in minutes
    req,        \* the requests in flight, per slot
    consumed,   \* history: bag of the tokens Refresh has returned success for
    workers,    \* how many requests the server handles at once
    reviews     \* table reviews: set of rows

vars == <<users, tokens, nextTok, issued, now, req, consumed, workers, reviews>>

Idle ==
    [pc |-> "idle", op |-> "", token |-> NoToken, email |-> NoEmail,
     username |-> NoName, password |-> "", user |-> NoUser,
     access |-> NoClaims, refresh |-> NoToken, revoked |-> FALSE,
     google_id |-> NoGoogleId, result |-> NoResult]

Empty ==
    /\ users = <<>>
    /\ tokens = {}
    /\ nextTok = 1
    /\ issued = {}
    /\ now = 0
    /\ req = [p \in Procs |-> Idle]
    /\ consumed = EmptyBag
    /\ reviews = {}

\* requests served one after another
Init == Empty /\ workers = 1

\* requests served concurrently, their statements interleaved
ConcInit == Empty /\ workers = Cardinality(Procs)

\* ------------------------------------------------------------ JWTHandler
UserIds == 1..Len(users)

hash_password(password) == [scheme |-> "pbkdf2_sha256", of |-> password]

\* (mutant) every password verifies
verify_password_always(plain_password, hashed_password) == TRUE

\* (mutant) an absent hash verifies any password
verify_password_nohash(plain_password, hashed_password) ==
    \/ hashed_password = NoHash
    \/ hashed_password = hash_password(plain_password)

\* pwd_context.verify: False for an absent hash
verify_password(plain_password, hashed_password) ==
    /\ hashed_password # NoHash
    /\ hashed_password = hash_password(plain_password)

\* jose.jwt.encode / jose.jwt.decode: a token carries its header, its claims
\* and the key its signature was made with
jwt_encode(claims, key, algorithm) ==
    [header |-> algorithm, payload |-> claims, key |-> key]

\* decode raises JWTError for a token that does not parse, whose signature
\* does not verify under the key, or whose exp claim lies before the clock
jwt_decode_error(token, key, algorithm) ==
    \/ token.header # algorithm
    \/ token.key # key
    \/ "exp" \in DOMAIN token.payload /\ token.payload["exp"] < now

\* dict.update: the supplied claims, with exp and type overwritten
create_access_token(data) ==
    jwt_encode([k \in DOMAIN data \cup {"exp", "type"} |->
                   IF k = "exp" THEN now + JWT_ACCESS_TOKEN_EXPIRE_MINUTES
                   ELSE IF k = "type" THEN "access"
                   ELSE data[k]],
               JWT_SECRET_KEY, JWT_ALGORITHM)

\* (mutant) the lifetime is not added to the expiry
NewRefreshRow_expired(user_id) ==
    [token |-> nextTok, user_id |-> user_id, expires_at |-> now]

\* the row create_refresh_token stores for a freshly generated value
NewRefreshRow(user_id) ==
    [token |-> nextTok, user_id |-> user_id,
     expires_at |-> now + JWT_REFRESH_TOKEN_EXPIRE_DAYS * 24 * 60]

\* the row create_refresh_token stores when uuid4 has yielded token
StoredRow(token, user_id) == [NewRefreshRow(user_id) EXCEPT !.token = token]

\* (mutant) the column token is not declared UNIQUE
TokenViolation_off(token) == FALSE

\* the UNIQUE column token of table refresh_tokens, checked on commit
TokenViolation(token) == \E r \in tokens : r.token = token

\* (mutant) the expiry comparison admits the boundary instant
ValidRows_inclusive(token) ==
    {r \in tokens : r.token = token /\ r.expires_at >= now}

\* verify_refresh_token: the rows its query selects
ValidRows(token) ==
    {r \in tokens : r.token = token /\ r.expires_at > now}

verify_refresh_token(token) ==
    IF ValidRows(token) = {} THEN NoUser
    ELSE (CHOOSE r \in ValidRows(token) : TRUE).user_id

\* (mutant) the row is looked up but never deleted
RevokedLedger_keep(token) == tokens

\* (mutant) every row of the token's owner is deleted
RevokedLedger_user(token) ==
    {r \in tokens : \A o \in tokens : o.token = token => r.user_id # o.user_id}

\* revoke_refresh_token: the ledger afterwards, and the value returned
RevokedLedger(token) == {r \in tokens : r.token # token}

\* (mutant) True is returned whether or not a row was found
revoke_refresh_token_found(token) == TRUE

revoke_refresh_token(token) == \E r \in tokens : r.token = token

\* (mutant) the owner's rows are left in the ledger
revoke_all_user_tokens_none(user_id) == tokens

\* revoke_all_user_tokens: the ledger afterwards
revoke_all_user_tokens(user_id) == {r \in tokens : r.user_id # user_id}

\* (mutant) the is_active filter is missing
get_user_by_email_any(email) ==
    IF \E i \in UserIds : users[i].email = email
    THEN CHOOSE i \in UserIds : users[i].email = email
    ELSE NoUser

get_user_by_email(email) ==
    IF \E i \in UserIds : users[i].email = email /\ users[i].is_active
    THEN CHOOSE i \in UserIds : users[i].email = email /\ users[i].is_active
    ELSE NoUser

get_user_by_id(user_id) ==
    IF user_id \in UserIds /\ users[user_id].is_active THEN user_id ELSE NoUser

UsernameExists(username) == \E i \in UserIds : users[i].username = username

\* (mutant) the columns are not declared UNIQUE
UniqueViolation_off(id, email, username) == FALSE

\* the UNIQUE columns of table users, checked by the datastore on commit
UniqueViolation(id, email, username) ==
    \E i \in UserIds \ {id} :
        users[i].email = email \/ users[i].username = username

\* (mutant) the username is looked up before the email
create_user_error_swapped(email, username) ==
    IF UsernameExists(username) THEN DuplicateUsername
    ELSE IF get_user_by_email(email) # NoUser THEN DuplicateEmail
    ELSE OK

\* create_user's checks, in the code's order
create_user_error(email, username) ==
    IF get_user_by_email(email) # NoUser THEN DuplicateEmail
    ELSE IF UsernameExists(username) THEN DuplicateUsername
    ELSE OK

NewUserRow(email, username, password) ==
    [email |-> email, username |-> username,
     password_hash |-> hash_password(password),
     google_id |-> NoGoogleId, is_active |-> TRUE]

\* (mutant) the attestation is not looked at
email_verified_any(google_user_info) == TRUE

\* google_user_info.get('email_verified')
email_verified(google_user_info) == google_user_info.email_verified

\* the UNIQUE column google_id (NULL is never a duplicate)
GoogleIdViolation(id, google_id) ==
    /\ google_id # NoGoogleId
    /\ \E i \in UserIds \ {id} : users[i].google_id = google_id

\* f"{base_username}{counter}", for a counter of one digit
Suffixed(base_username, counter) ==
    Name(base_username.base, base_username.n * 10 + counter)

\* (mutant) the counter starts at 2
generate_username_from_email_skip(email) ==
    IF UsernameExists(email.local) THEN Suffixed(email.local, 2) ELSE email.local

\* _generate_username_from_email: the while loop
RECURSIVE UsernameLoop(_, _, _)
UsernameLoop(base_username, username, counter) ==
    IF UsernameExists(username)
    THEN UsernameLoop(base_username, Suffixed(base_username, counter), counter + 1)
    ELSE username

generate_username_from_email(email) == UsernameLoop(email.local, email.local, 1)

\* (mutant) the subject is not stored with the new row
NewGoogleUserRow_noid(email, username, google_id) ==
    [email |-> email, username |-> username, password_hash |-> NoHash,
     google_id |-> NoGoogleId, is_active |-> TRUE]

\* the row authenticate_or_create_user adds for a new Google user
NewGoogleUserRow(email, username, google_id) ==
    [email |-> email, username |-> username, password_hash |-> NoHash,
     google_id |-> google_id, is_active |-> TRUE]

\* authenticate_user's outcome
authenticate_user_error(email, password) ==
    IF get_user_by_email(email) = NoUser THEN AccountNotFound
    ELSE IF ~verify_password(password, users[get_user_by_email(email)].password_hash)
         THEN InvalidCredentials
    ELSE OK

\* dict.get
Get(d, k, default) == IF k \in DOMAIN d THEN d[k] ELSE default

\* (mutant) a token is refused once its subject holds no refresh token
verify_access_token_ledger(token) ==
    IF \/ jwt_decode_error(token, JWT_SECRET_KEY, JWT_ALGORITHM)
       \/ \A r \in tokens : r.user_id # Get(token.payload, "sub", NoUser)
    THEN [error |-> InvalidToken, payload |-> NoClaims]
    ELSE [error |-> OK, payload |-> token.payload]

\* (mutant) the type discriminator is not looked at
verify_access_token_anytype(token) ==
    IF jwt_decode_error(token, JWT_SECRET_KEY, JWT_ALGORITHM)
    THEN [error |-> InvalidToken, payload |-> NoClaims]
    ELSE [error |-> OK, payload |-> token.payload]

\* verify_access_token: the claims, or the AuthenticationError raised
verify_access_token(token) ==
    IF jwt_decode_error(token, JWT_SECRET_KEY, JWT_ALGORITHM)
    THEN [error |-> InvalidToken, payload |-> NoClaims]
    ELSE IF Get(token.payload, "type", "") # "access"
         THEN [error |-> WrongTokenType, payload |-> NoClaims]
    ELSE [error |-> OK, payload |-> token.payload]

\* (mutant) the is_active filter is missing from the lookup
get_profile_error_any(user_id) ==
    IF user_id \in UserIds THEN OK ELSE ProfileNotFound

\* UserService.get_profile: the active row with that id, or NotFoundError
get_profile_error(user_id) ==
    IF get_user_by_id(user_id) = NoUser THEN ProfileNotFound ELSE OK

\* (mutant) a missing profile surfaces as NotFoundError
get_current_user_error_notfound(bearer) ==
    LET v == verify_access_token(bearer)
    IN IF v.error # OK \/ Get(v.payload, "sub", NoUser) = NoUser THEN Unauthorized
       ELSE get_profile_error(v.payload["sub"])

\* get_current_user: every exception raised inside becomes HTTP 401
get_current_user_error(bearer) ==
    LET v == verify_access_token(bearer)
    IN IF v.error # OK THEN Unauthorized
       ELSE IF Get(v.payload, "sub", NoUser) = NoUser THEN Unauthorized
       ELSE IF get_profile_error(v.payload["sub"]) # OK THEN Unauthorized
       ELSE OK

\* get_current_user: the id of the profile returned
get_current_user(bearer) ==
    IF get_current_user_error(bearer) # OK THEN NoUser
    ELSE verify_access_token(bearer).payload["sub"]

\* ------------------------------------------------------------- the requests
Set(p, r) == req' = [req EXCEPT ![p] = r]
Quiet == \A q \in Procs : req[q].pc = "idle"
\* a finished request's response is delivered before the next statement runs
Delivered == \A q \in Procs : req[q].pc # "done"
\* a request's next statement runs
At(p, pc) == req[p].pc = pc /\ Delivered
\* a new request is taken by the lowest free worker
Free(p) ==
    /\ p <= workers
    /\ At(p, "idle")
    /\ \A q \in Procs : q < p => req[q].pc # "idle"
Done(r, result) == [r EXCEPT !.pc = "done", !.result = result]
\* what of a handler's locals the response still shows
Sent(r) ==
    [r EXCEPT !.email = NoEmail, !.username = NoName, !.password = "",
              !.google_id = NoGoogleId]

\* rows and token values that requests already admitted may still create
PendingUsers ==
    Cardinality({q \in Procs : req[q].pc \in {"create_user", "google_create"}})
PendingTokens ==
    Cardinality({q \in Procs :
        req[q].pc \in {"create_user", "signup_issue", "login_issue", "refresh_issue",
                       "google_create", "google_backfill", "google_issue"}})
RoomForUser == Len(users) + PendingUsers < MaxUsers
RoomForToken == (nextTok - 1) + PendingTokens < MaxTokens
PendingReviews == Cardinality({q \in Procs : req[q].pc = "scrape_save"})
RoomForReview == Cardinality(reviews) + PendingReviews < MaxReviews

\* (mutant) issuing a pair ends the user's earlier sessions
IssuePair_single(p, data) ==
    /\ tokens' = revoke_all_user_tokens(req[p].user) \cup {NewRefreshRow(req[p].user)}
    /\ nextTok' = nextTok + 1
    /\ issued' = issued \cup {create_access_token(data)}

\* create_refresh_token + create_access_token, as every issuing handler calls
\* them: the access token is signed first, then the refresh row is committed
IssuePair(p, data) ==
    /\ tokens' = tokens \cup {NewRefreshRow(req[p].user)}
    /\ nextTok' = nextTok + 1
    /\ issued' = issued \cup {create_access_token(data)}

\* AuthService.signup, first statement group: create_user's two lookups
Signup(p, email, username, password) ==
    /\ Free(p)
    /\ LET r == [Idle EXCEPT !.op = "signup"]
           e == create_user_error(email, username)
       IN IF e # OK THEN Set(p, Done(r, e))
          ELSE /\ RoomForUser /\ RoomForToken
               /\ Set(p, [r EXCEPT !.pc = "create_user", !.email = email,
                                   !.username = username, !.password = password])
    /\ UNCHANGED <<users, tokens, nextTok, issued, now, consumed, workers, reviews>>

\* create_user: db.add(user); db.commit()
CreateUser(p) ==
    /\ At(p, "create_user")
    /\ LET r == req[p]
           id == Len(users) + 1
       IN IF UniqueViolation(id, r.email, r.username)
          THEN /\ Set(p, Done(Sent(r), SignupFailed))
               /\ UNCHANGED users
          ELSE /\ users' = Append(users, NewUserRow(r.email, r.username, r.password))
               /\ Set(p, [r EXCEPT !.pc = "signup_issue", !.user = id,
                                   !.username = NoName, !.password = ""])
    /\ UNCHANGED <<tokens, nextTok, issued, now, consumed, workers, reviews>>

\* signup: create_access_token, create_refresh_token, the response
SignupIssue(p) ==
    /\ At(p, "signup_issue")
    /\ LET r == req[p]
           data == [sub |-> r.user, email |-> r.email]
       IN /\ IssuePair(p, data)
          /\ Set(p, [Done(Sent(r), OK) EXCEPT !.access = create_access_token(data),
                                              !.refresh = nextTok])
    /\ UNCHANGED <<users, now, consumed, workers, reviews>>

\* AuthService.login: authenticate_user
Login(p, email, password) ==
    /\ Free(p)
    /\ LET r == [Idle EXCEPT !.op = "login", !.email = email]
           e == authenticate_user_error(email, password)
       IN IF e # OK THEN Set(p, Done(r, e))
          ELSE /\ RoomForToken
               /\ Set(p, [r EXCEPT !.pc = "login_issue",
                                   !.user = get_user_by_email(email)])
    /\ UNCHANGED <<users, tokens, nextTok, issued, now, consumed, workers, reviews>>

\* login: create_access_token, create_refresh_token, the response
LoginIssue(p) ==
    /\ At(p, "login_issue")
    /\ LET r == req[p]
           data == [sub |-> r.user, email |-> r.email]
       IN /\ IssuePair(p, data)
          /\ Set(p, [Done(Sent(r), OK) EXCEPT !.access = create_access_token(data),
                                              !.refresh = nextTok])
    /\ UNCHANGED <<users, now, consumed, workers, reviews>>

\* AuthService.logout: revoke_refresh_token, its result dropped
Logout(p, token) ==
    /\ Free(p)
    /\ tokens' = RevokedLedger(token)
    /\ Set(p, [Done([Idle EXCEPT !.op = "logout", !.token = token], LoggedOut)
                  EXCEPT !.revoked = revoke_refresh_token(token)])
    /\ UNCHANGED <<users, nextTok, issued, now, consumed, workers, reviews>>

\* (mutant) a refused Refresh deletes the row of the presented value
Refresh_purging(p, token) ==
    /\ Free(p)
    /\ LET r == [Idle EXCEPT !.op = "refresh", !.token = token]
           u == verify_refresh_token(token)
       IN IF u = NoUser
          THEN /\ Set(p, Done(r, InvalidOrExpiredToken))
               /\ tokens' = RevokedLedger(token)
          ELSE /\ RoomForToken
               /\ Set(p, [r EXCEPT !.pc = "refresh_issue", !.user = u,
                                   !.email = users[u].email])
               /\ UNCHANGED tokens
    /\ UNCHANGED <<users, nextTok, issued, now, consumed, workers, reviews>>

\* AuthService.refresh_token: verify_refresh_token, loading the owner's row
Refresh(p, token) ==
    /\ Free(p)
    /\ LET r == [Idle EXCEPT !.op = "refresh", !.token = token]
           u == verify_refresh_token(token)
       IN IF u = NoUser THEN Set(p, Done(r, InvalidOrExpiredToken))
          ELSE /\ RoomForToken
               /\ Set(p, [r EXCEPT !.pc = "refresh_issue", !.user = u,
                                   !.email = users[u].email])
    /\ UNCHANGED <<users, tokens, nextTok, issued, now, consumed, workers, reviews>>

\* refresh_token: create_access_token, create_refresh_token (committed)
RefreshIssue(p) ==
    /\ At(p, "refresh_issue")
    /\ LET r == req[p]
           data == [sub |-> r.user, email |-> r.email]
       IN /\ IssuePair(p, data)
          /\ Set(p, [r EXCEPT !.pc = "refresh_revoke",
                              !.access = create_access_token(data),
                              !.refresh = nextTok])
    /\ UNCHANGED <<users, now, consumed, workers, reviews>>

\* refresh_token: revoke_refresh_token(old), its result dropped; the response
RefreshRevoke(p) ==
    /\ At(p, "refresh_revoke")
    /\ tokens' = RevokedLedger(req[p].token)
    /\ Set(p, [Done(Sent(req[p]), OK)
                  EXCEPT !.revoked = revoke_refresh_token(req[p].token)])
    /\ consumed' = consumed (+) SetToBag({req[p].token})
    /\ UNCHANGED <<users, nextTok, issued, now, workers, reviews>>

\* google_signin: verify_google_token's result, the email_verified check, the
\* lookup of the active user with the email, the username for a new user
GoogleSignin(p, info) ==
    /\ Free(p)
    /\ LET r == [Idle EXCEPT !.op = "google", !.email = info.email,
                             !.google_id = info.google_id]
           u == get_user_by_email(info.email)
       IN IF ~email_verified(info) THEN Set(p, Done(Sent(r), UnverifiedEmail))
          ELSE IF u # NoUser
               THEN /\ RoomForToken
                    /\ Set(p, [r EXCEPT !.user = u,
                                        !.pc = IF users[u].google_id = NoGoogleId
                                               THEN "google_backfill"
                                               ELSE "google_issue"])
          ELSE /\ RoomForUser /\ RoomForToken
               /\ Set(p, [r EXCEPT !.pc = "google_create",
                                   !.username = generate_username_from_email(info.email)])
    /\ UNCHANGED <<users, tokens, nextTok, issued, now, consumed, workers, reviews>>

\* authenticate_or_create_user: existing_user.google_id = ...; db.commit()
GoogleBackfill(p) ==
    /\ At(p, "google_backfill")
    /\ LET r == req[p]
       IN IF GoogleIdViolation(r.user, r.google_id)
          THEN /\ Set(p, Done(Sent(r), InternalError))
               /\ UNCHANGED users
          ELSE /\ users' = [users EXCEPT ![r.user].google_id = r.google_id]
               /\ Set(p, [r EXCEPT !.pc = "google_issue"])
    /\ UNCHANGED <<tokens, nextTok, issued, now, consumed, workers, reviews>>

\* authenticate_or_create_user: db.add(new_user); db.commit()
GoogleCreate(p) ==
    /\ At(p, "google_create")
    /\ LET r == req[p]
           id == Len(users) + 1
       IN IF UniqueViolation(id, r.email, r.username) \/ GoogleIdViolation(id, r.google_id)
          THEN /\ Set(p, Done(Sent(r), InternalError))
               /\ UNCHANGED users
          ELSE /\ users' = Append(users, NewGoogleUserRow(r.email, r.username, r.google_id))
               /\ Set(p, [r EXCEPT !.pc = "google_issue", !.user = id])
    /\ UNCHANGED <<tokens, nextTok, issued, now, consumed, workers, reviews>>

\* google_signin: create_access_token, create_refresh_token, the response
GoogleIssue(p) ==
    /\ At(p, "google_issue")
    /\ LET r == req[p]
           data == [sub |-> r.user]
       IN /\ IssuePair(p, data)
          /\ Set(p, [Done(Sent(r), OK) EXCEPT !.access = create_access_token(data),
                                              !.refresh = nextTok])
    /\ UNCHANGED <<users, now, consumed, workers, reviews>>

\* GET /user/profile: get_current_user, the response
GetProfile(p, bearer) ==
    /\ Free(p)
    /\ LET r == [Idle EXCEPT !.op = "profile"]
           e == get_current_user_error(bearer)
       IN IF e # OK THEN Set(p, Done(r, e))
          ELSE Set(p, Done([r EXCEPT !.user = get_current_user(bearer)], OK))
    /\ UNCHANGED <<users, tokens, nextTok, issued, now, consumed, workers, reviews>>

\* update_profile: the active user other than user_id holding the username
UsernameTakenByOther(user_id, username) ==
    \E i \in UserIds \ {user_id} :
        users[i].username = username /\ users[i].is_active

\* PUT /user/profile: get_current_user, update_profile's lookups
UpdateProfile(p, bearer, username) ==
    /\ Free(p)
    /\ LET r == [Idle EXCEPT !.op = "update"]
           e == get_current_user_error(bearer)
           u == get_current_user(bearer)
       IN IF e # OK THEN Set(p, Done(r, e))
          ELSE IF UsernameTakenByOther(u, username)
               THEN Set(p, Done([r EXCEPT !.user = u], DuplicateUsername))
          ELSE Set(p, [r EXCEPT !.pc = "update_commit", !.user = u,
                                !.username = username])
    /\ UNCHANGED <<users, tokens, nextTok, issued, now, consumed, workers, reviews>>

\* update_profile: setattr(user, "username", value); db.commit()
UpdateCommit(p) ==
    /\ At(p, "update_commit")
    /\ LET r == req[p]
       IN IF UniqueViolation(r.user, users[r.user].email, r.username)
          THEN /\ Set(p, Done(Sent(r), UpdateFailed))
               /\ UNCHANGED users
          ELSE /\ users' = [users EXCEPT ![r.user].username = r.username]
               /\ Set(p, Done(Sent(r), OK))
    /\ UNCHANGED <<tokens, nextTok, issued, now, consumed, workers, reviews>>

\* (mutant) a changed password ends the user's sessions
ChangePassword_revoking(p, bearer, current_password, new_password) ==
    /\ Free(p)
    /\ LET r == [Idle EXCEPT !.op = "password"]
           e == get_current_user_error(bearer)
           u == get_current_user(bearer)
       IN IF e # OK
          THEN Set(p, Done(r, e)) /\ UNCHANGED <<users, tokens>>
          ELSE IF ~verify_password(current_password, users[u].password_hash)
               THEN /\ Set(p, Done([r EXCEPT !.user = u], IncorrectCurrentPassword))
                    /\ UNCHANGED <<users, tokens>>
          ELSE /\ users' = [users EXCEPT ![u].password_hash = hash_password(new_password)]
               /\ tokens' = revoke_all_user_tokens(u)
               /\ Set(p, Done([r EXCEPT !.user = u], PasswordChanged))
    /\ UNCHANGED <<nextTok, issued, now, consumed, workers, reviews>>

\* PUT /user/change-password: get_current_user, the lookup, verify_password,
\* user.password_hash = hash_password(new_password); db.commit()
ChangePassword(p, bearer, current_password, new_password) ==
    /\ Free(p)
    /\ LET r == [Idle EXCEPT !.op = "password"]
           e == get_current_user_error(bearer)
           u == get_current_user(bearer)
       IN IF e # OK
          THEN Set(p, Done(r, e)) /\ UNCHANGED users
          ELSE IF ~verify_password(current_password, users[u].password_hash)
               THEN /\ Set(p, Done([r EXCEPT !.user = u], IncorrectCurrentPassword))
                    /\ UNCHANGED users
          ELSE /\ users' = [users EXCEPT ![u].password_hash = hash_password(new_password)]
               /\ Set(p, Done([r EXCEPT !.user = u], PasswordChanged))
    /\ UNCHANGED <<tokens, nextTok, issued, now, consumed, workers, reviews>>

\* POST /reviews/scrape: get_current_user, then the scraper is called
Scrape(p, bearer) ==
    /\ Free(p)
    /\ LET r == [Idle EXCEPT !.op = "scrape"]
           e == get_current_user_error(bearer)
       IN IF e # OK THEN Set(p, Done(r, e))
          ELSE /\ RoomForReview
               /\ Set(p, [r EXCEPT !.pc = "scrape_save",
                                   !.user = get_current_user(bearer)])
    /\ UNCHANGED <<users, tokens, nextTok, issued, now, consumed, workers, reviews>>

\* the row _save_reviews_to_db adds for a scraped review
NewReviewRow(user_id) ==
    [id |-> Cardinality(reviews) + 1, user_id |-> user_id]

\* _save_reviews_to_db: db.add per review, db.commit(); the response
ScrapeSave(p) ==
    /\ At(p, "scrape_save")
    /\ reviews' = reviews \cup {NewReviewRow(req[p].user)}
    /\ Set(p, Done(req[p], Scraped))
    /\ UNCHANGED <<users, tokens, nextTok, issued, now, consumed, workers>>

\* delete_account: the reviews left by query(Review).filter(user_id).delete()
DeletedReviews(user_id) == {r \in reviews : r.user_id # user_id}

\* DELETE /user/delete: get_current_user (verify_access_token, get_profile)
DeleteAccount(p, bearer) ==
    /\ Free(p)
    /\ LET r == [Idle EXCEPT !.op = "delete"]
           e == get_current_user_error(bearer)
       IN IF e # OK THEN Set(p, Done(r, e))
          ELSE Set(p, [r EXCEPT !.pc = "delete_revoke",
                                !.user = get_current_user(bearer)])
    /\ UNCHANGED <<users, tokens, nextTok, issued, now, consumed, workers, reviews>>

\* delete_account: the lookup, the deletes, revoke_all_user_tokens' commit
DeleteRevoke(p) ==
    /\ At(p, "delete_revoke")
    /\ IF get_user_by_id(req[p].user) = NoUser
       THEN /\ Set(p, Done(req[p], DeletionFailed))
            /\ UNCHANGED <<tokens, reviews>>
       ELSE /\ reviews' = DeletedReviews(req[p].user)
            /\ tokens' = revoke_all_user_tokens(req[p].user)
            /\ Set(p, [req[p] EXCEPT !.pc = "delete_tombstone"])
    /\ UNCHANGED <<users, nextTok, issued, now, consumed, workers>>

\* (mutant) the row is only marked inactive
Tombstone_keep(id, row) == [row EXCEPT !.is_active = FALSE]

Tombstone(id, row) ==
    [row EXCEPT !.is_active = FALSE,
                !.email = [local |-> Name("deleted_", id), domain |-> "deleted.com"],
                !.username = Name("deleted_", id),
                !.google_id = NoGoogleId]

\* (mutant) db.delete(user): the row is removed from the table
SoftDeleted_hard(id) ==
    [i \in 1..(Len(users) - 1) |-> IF i < id THEN users[i] ELSE users[i + 1]]

\* the table users after delete_account's commit: the row is kept, rewritten
SoftDeleted(id) == [users EXCEPT ![id] = Tombstone(id, users[id])]

\* delete_account: the soft delete and its commit
DeleteTombstone(p) ==
    /\ At(p, "delete_tombstone")
    /\ LET id == req[p].user
           row == Tombstone(id, users[id])
       IN IF UniqueViolation(id, row.email, row.username)
          THEN /\ Set(p, Done(req[p], DeletionFailed))
               /\ UNCHANGED users
          ELSE /\ users' = SoftDeleted(id)
               /\ Set(p, Done(req[p], AccountDeleted))
    /\ UNCHANGED <<tokens, nextTok, issued, now, consumed, workers, reviews>>

\* the response has been sent; the slot is free again
Return(p) ==
    /\ req[p].pc = "done"
    /\ Set(p, Idle)
    /\ UNCHANGED <<users, tokens, nextTok, issued, now, consumed, workers, reviews>>

\* the clock moves on
Tick ==
    /\ Quiet
    /\ \E t \in Instants : t > now /\ now' = t
    /\ UNCHANGED <<users, tokens, nextTok, issued, req, consumed, workers, reviews>>

\* an address login is tried with: a fresh one, or that of any row (also a tombstone)
LoginEmails == Emails \cup {users[i].email : i \in UserIds}

TokenInputs == {UnknownToken} \cup (1..(nextTok - 1))

\* a bearer credential a client can present: a token the server issued, one
\* re-signed without the server's key, or a string that is not a JWT
Forged(token) == [token EXCEPT !.key = ""]
NotAToken == [header |-> "", payload |-> <<>>, key |-> ""]
BearerInputs == issued \cup {Forged(t) : t \in issued} \cup {NotAToken}

\* ------------------------------------------------ the requests, by endpoint
\* POST /auth/signup
SignupRequest(p) ==
    \/ \E e \in Emails, u \in Usernames, pw \in SignupPasswords : Signup(p, e, u, pw)
    \/ CreateUser(p)
    \/ SignupIssue(p)

\* POST /auth/login
LoginRequest(p) ==
    \/ \E e \in LoginEmails, pw \in Passwords : Login(p, e, pw)
    \/ LoginIssue(p)

\* POST /auth/logout
LogoutRequest(p) == \E t \in TokenInputs : Logout(p, t)

\* POST /auth/refresh
RefreshRequest(p) ==
    \/ \E t \in TokenInputs : Refresh(p, t)
    \/ RefreshIssue(p)
    \/ RefreshRevoke(p)

\* POST /auth/google
GoogleRequest(p) ==
    \/ \E g \in GoogleIdentities : GoogleSignin(p, g)
    \/ GoogleBackfill(p)
    \/ GoogleCreate(p)
    \/ GoogleIssue(p)

\* DELETE /user/delete
DeleteRequest(p) ==
    \/ \E b \in BearerInputs : DeleteAccount(p, b)
    \/ DeleteRevoke(p)
    \/ DeleteTombstone(p)

\* GET /user/profile
ProfileRequest(p) == \E b \in BearerInputs : GetProfile(p, b)

\* PUT /user/profile
UpdateRequest(p) ==
    \/ \E b \in BearerInputs, u \in Usernames : UpdateProfile(p, b, u)
    \/ UpdateCommit(p)

\* PUT /user/change-password
PasswordRequest(p) ==
    \E b \in BearerInputs, c \in Passwords, n \in NewPasswords :
        ChangePassword(p, b, c, n)

\* POST /reviews/scrape
ScrapeRequest(p) ==
    \/ \E b \in BearerInputs : Scrape(p, b)
    \/ ScrapeSave(p)

\* the session lifecycle: password sign-up, login, logout, refresh, and the
\* deletion of the account
Next ==
    \/ \E p \in Procs :
          \/ SignupRequest(p)
          \/ LoginRequest(p)
          \/ LogoutRequest(p)
          \/ RefreshRequest(p)
          \/ DeleteRequest(p)
          \/ Return(p)
    \/ Tick

Spec == Init /\ [][Next]_vars

ConcSpec == ConcInit /\ [][Next]_vars

\* the accounts: sign-up by password or with Google, login, the profile, the
\* password, the reviews and the deletion of the account, at one instant of
\* the clock
AccountNext ==
    \E p \in Procs :
        \/ SignupRequest(p)
        \/ GoogleRequest(p)
        \/ LoginRequest(p)
        \/ ProfileRequest(p)
        \/ UpdateRequest(p)
        \/ PasswordRequest(p)
        \/ ScrapeRequest(p)
        \/ DeleteRequest(p)
        \/ Return(p)

AccountSpec == Init /\ [][AccountNext]_vars

\* the endpoints behind get_current_user, with sign-up to obtain the bearer
\* tokens and the clock to let them expire
ProtectedNext ==
    \/ \E p \in Procs :
          \/ SignupRequest(p)
          \/ ProfileRequest(p)
          \/ UpdateRequest(p)
          \/ PasswordRequest(p)
          \/ ScrapeRequest(p)
          \/ DeleteRequest(p)
          \/ Return(p)
    \/ Tick

ProtectedSpec == Init /\ [][ProtectedNext]_vars

\* the requests that write email, username and is_active, two at a time
IdentityNext ==
    \E p \in Procs :
        \/ SignupRequest(p)
        \/ GoogleRequest(p)
        \/ UpdateRequest(p)
        \/ DeleteRequest(p)
        \/ Return(p)

IdentitySpec == ConcInit /\ [][IdentityNext]_vars

\* the ways to obtain tokens and to change the password: sign-up by password
\* or with Google, login, refresh and change-password, with the deletion of
\* the account, at one instant
CredentialNext ==
    \E p \in Procs :
        \/ SignupRequest(p)
        \/ GoogleRequest(p)
        \/ LoginRequest(p)
        \/ RefreshRequest(p)
        \/ PasswordRequest(p)
        \/ DeleteRequest(p)
        \/ Return(p)

CredentialSpec == Init /\ [][CredentialNext]_vars

\* ------------------------------------------------ the functions on their own
\* usernames that sign-ups have taken, in the order of the rows
SeedNames == <<Name("jane", 0), Name("jane", 1), Name("jane", 2), Name("bob", 0)>>

\* the table after password sign-ups with the usernames in taken
SeededUsers(taken) ==
    LET names == SelectSeq(SeedNames, LAMBDA n : n \in taken)
    IN [i \in 1..Len(names) |->
           NewUserRow([local |-> Name("user", i), domain |-> "x.com"], names[i], "pw1")]

\* the emails a username is generated for
GoogleEmails == Emails \cup {[local |-> Name("jane", 1), domain |-> "x.com"]}

\* the claims of the tokens presented: with or without exp and type
NoneOf == <<>>
ClaimInputs ==
    {[sub |-> 1] @@ e @@ t :
        e \in {NoneOf} \cup {[exp |-> x] : x \in Instants \cup {29}},
        t \in {NoneOf, [type |-> "access"], [type |-> "refresh"]}}

\* the tokens presented: signed with the server's key or another, or no JWT
AccessTokenInputs ==
    {jwt_encode(c, k, JWT_ALGORITHM) : c \in ClaimInputs, k \in {JWT_SECRET_KEY, ""}}
        \cup {NotAToken}

FunctionInit ==
    /\ users \in {SeededUsers(taken) : taken \in SUBSET {SeedNames[i] : i \in 1..Len(SeedNames)}}
    /\ now \in Instants
    /\ tokens = {}
    /\ nextTok = 1
    /\ issued = {}
    /\ req = [p \in Procs |-> Idle]
    /\ consumed = EmptyBag
    /\ reviews = {}
    /\ workers = 1

\* verify_access_token applied to a token
VerifyAccessToken(p, token) ==
    /\ Free(p)
    /\ LET v == verify_access_token(token)
       IN Set(p, Done([Idle EXCEPT !.op = "verify", !.access = token,
                                   !.user = Get(v.payload, "sub", NoUser)],
                      v.error))
    /\ UNCHANGED <<users, tokens, nextTok, issued, now, consumed, workers, reviews>>

\* _generate_username_from_email applied to an email
GenerateUsername(p, email) ==
    /\ Free(p)
    /\ Set(p, Done([Idle EXCEPT !.op = "username", !.email = email,
                                !.username = generate_username_from_email(email)],
                   OK))
    /\ UNCHANGED <<users, tokens, nextTok, issued, now, consumed, workers, reviews>>

\* the dicts create_access_token is given: what the handlers pass, and dicts
\* holding an exp or a type of their own
DataInputs ==
    ClaimInputs \cup {[sub |-> 2], [sub |-> 2, email |-> Addr("bob", "x.com")]}

\* create_access_token applied to a dict of claims
CreateAccessToken(p, data) ==
    /\ Free(p)
    /\ Set(p, Done([Idle EXCEPT !.op = "issue", !.access = create_access_token(data)],
                   OK))
    /\ UNCHANGED <<users, tokens, nextTok, issued, now, consumed, workers, reviews>>

FunctionNext ==
    \E p \in Procs :
        \/ \E t \in AccessTokenInputs : VerifyAccessToken(p, t)
        \/ \E d \in DataInputs : CreateAccessToken(p, d)
        \/ \E e \in GoogleEmails : GenerateUsername(p, e)
        \/ Return(p)

FunctionSpec == FunctionInit /\ [][FunctionNext]_vars

\* ------------------------------------------------------ the ledger on its own
\* the values uuid4 may yield, one already stored included
LedgerValues == 1..MaxTokens

\* two users have signed up
LedgerInit ==
    /\ users = SeededUsers({SeedNames[1], SeedNames[4]})
    /\ now = 0
    /\ tokens = {}
    /\ nextTok = 1
    /\ issued = {}
    /\ req = [p \in Procs |-> Idle]
    /\ consumed = EmptyBag
    /\ reviews = {}
    /\ workers = 1

\* create_refresh_token, uuid4 having yielded token: db.add; db.commit()
CreateRefreshToken(p, token, user_id) ==
    /\ Free(p)
    /\ LET r == [Idle EXCEPT !.op = "store", !.token = token, !.user = user_id]
       IN IF TokenViolation(token)
          THEN /\ Set(p, Done(r, DuplicateToken))
               /\ UNCHANGED tokens
          ELSE /\ tokens' = tokens \cup {StoredRow(token, user_id)}
               /\ Set(p, Done([r EXCEPT !.refresh = token], OK))
    /\ UNCHANGED <<users, nextTok, issued, now, consumed, workers, reviews>>

LedgerNext ==
    \/ \E p \in Procs :
          \/ \E t \in LedgerValues, u \in UserIds : CreateRefreshToken(p, t, u)
          \/ \E t \in LedgerValues : Logout(p, t)
          \/ Return(p)
    \/ Tick

LedgerSpec == LedgerInit /\ [][LedgerNext]_vars

\* ---------------------------------------------------------------- claims
Rows(token) == {r \in tokens : r.token = token}
Redeemed(token) == BagIn(token, consumed)
Finished(p, op) == req[p].pc = "done" /\ req[p].op = op

\* C1: a refresh token the ledger finds valid is accepted by Refresh, the
\* accepted Refresh returns success, and once a Refresh has returned success
\* for a token every later Refresh presenting it fails with
\* InvalidOrExpiredToken, whatever ran in between.
C1_RefreshSingleUse ==
    [][\A p \in Procs :
          /\ \A t \in TokenInputs :
                Refresh(p, t) =>
                    /\ ValidRows(t) # {} => req'[p].pc = "refresh_issue"
                    /\ Redeemed(t) =>
                          /\ req'[p].pc = "done"
                          /\ req'[p].result = InvalidOrExpiredToken
          /\ RefreshRevoke(p) =>
                /\ req'[p].pc = "done" /\ req'[p].result = OK
                /\ BagIn(req[p].token, consumed')
      ]_vars

C1_Witness ==
    \E p \in Procs :
        /\ Finished(p, "refresh")
        /\ req[p].result = InvalidOrExpiredToken
        /\ Redeemed(req[p].token)

\* C2 (as claimed): of the Refresh requests presenting one token value, at
\* most one returns a new token pair.
C2_OnePairPerToken ==
    \A t \in BagToSet(consumed) : CopiesIn(t, consumed) <= 1

\* C3 (as claimed): in no state are the token a Refresh presented and the
\* token issued in exchange for it both found valid by the ledger.
C3_RotationAtomic ==
    \A p \in Procs :
        (req[p].op = "refresh" /\ req[p].refresh # NoToken) =>
            ~(ValidRows(req[p].token) # {} /\ ValidRows(req[p].refresh) # {})

\* C4: a Refresh presenting a token whose row is still in the ledger with
\* expires_at <= now fails with InvalidOrExpiredToken, and the row stays.
C4_ExpiryBoundary ==
    [][\A p \in Procs, t \in TokenInputs :
          (Refresh(p, t) /\ \E r \in tokens : r.token = t /\ r.expires_at <= now) =>
              /\ req'[p].pc = "done"
              /\ req'[p].result = InvalidOrExpiredToken
              /\ tokens' = tokens
      ]_vars

C4_Witness ==
    \E p \in Procs :
        /\ Finished(p, "refresh")
        /\ req[p].result = InvalidOrExpiredToken
        /\ \E r \in tokens : r.token = req[p].token /\ r.expires_at = now

\* C5: while a Refresh is being served its user is the owner of the presented
\* token; when it has returned success, the access token's subject is that
\* user, the new refresh token differs from the presented one and is found
\* valid for that user, and the presented token has no row left.
C5_RefreshResult ==
    \A p \in Procs :
        req[p].op = "refresh" =>
            /\ req[p].pc \in {"refresh_issue", "refresh_revoke"} =>
                  \E r \in tokens : r.token = req[p].token /\ r.user_id = req[p].user
            /\ (req[p].pc = "done" /\ req[p].result = OK) =>
                  /\ req[p].access.payload["sub"] = req[p].user
                  /\ req[p].access.payload["type"] = "access"
                  /\ req[p].refresh # req[p].token
                  /\ verify_refresh_token(req[p].refresh) = req[p].user
                  /\ Rows(req[p].token) = {}

C5_Witness ==
    \E p \in Procs : Finished(p, "refresh") /\ req[p].result = OK

\* C6: a signup that passed create_user's checks never fails; the row it
\* commits is the newest, active, and carries its email; when it has returned,
\* the access token's subject is that row's id and the refresh token is found
\* valid for that user.
C6_SignupResult ==
    \A p \in Procs :
        req[p].op = "signup" =>
            /\ req[p].result # SignupFailed
            /\ req[p].pc = "signup_issue" =>
                  /\ req[p].user = Len(users)
                  /\ users[req[p].user].is_active
                  /\ users[req[p].user].email = req[p].email
            /\ (req[p].pc = "done" /\ req[p].result = OK) =>
                  /\ req[p].user = Len(users)
                  /\ users[req[p].user].is_active
                  /\ req[p].access.payload["sub"] = req[p].user
                  /\ req[p].access.payload["email"] = users[req[p].user].email
                  /\ req[p].access.payload["type"] = "access"
                  /\ verify_refresh_token(req[p].refresh) = req[p].user

C6_Witness ==
    \E p \in Procs :
        /\ Finished(p, "signup") /\ req[p].result = OK
        /\ Len(users) = MaxUsers

EmailTaken(email) == \E i \in UserIds : users[i].email = email /\ users[i].is_active
UsernameTaken(username) == \E i \in UserIds : users[i].username = username
SignupRefused(p) ==
    /\ req'[p].pc = "done"
    /\ req'[p].user = NoUser /\ req'[p].refresh = NoToken /\ req'[p].access = NoClaims
    /\ UNCHANGED <<users, tokens, nextTok, issued>>

\* C7 (as claimed): a signup fails with DuplicateEmail when the email is
\* taken and with DuplicateUsername when the username is taken, creating no
\* user and no token.
C7_AsClaimed ==
    [][\A p \in Procs, e \in Emails, u \in Usernames, pw \in SignupPasswords :
          Signup(p, e, u, pw) =>
              /\ EmailTaken(e) => req'[p].result = DuplicateEmail /\ SignupRefused(p)
              /\ UsernameTaken(u) => req'[p].result = DuplicateUsername /\ SignupRefused(p)
      ]_vars

\* C7 (amended): a signup fails with DuplicateEmail when the email is taken,
\* and with DuplicateUsername when the username is taken and the email is
\* not; in both cases no user row and no refresh token is created.
C7_SignupDuplicates ==
    [][\A p \in Procs, e \in Emails, u \in Usernames, pw \in SignupPasswords :
          Signup(p, e, u, pw) =>
              /\ EmailTaken(e) => req'[p].result = DuplicateEmail /\ SignupRefused(p)
              /\ (UsernameTaken(u) /\ ~EmailTaken(e)) =>
                    req'[p].result = DuplicateUsername /\ SignupRefused(p)
      ]_vars

C7_Witness ==
    \E p \in Procs :
        /\ Finished(p, "signup") /\ req[p].result = DuplicateUsername
        /\ Len(users) = 1 /\ tokens # {}

\* C8: a login fails with AccountNotFound when no active user has the email
\* (a soft-deleted row does not count) and with InvalidCredentials when an
\* active user has it and the stored hash is not that of the password; a
\* failed login issues nothing and leaves both tables as they were.
C8_LoginFailures ==
    [][\A p \in Procs, e \in LoginEmails, pw \in Passwords :
          Login(p, e, pw) =>
              LET act == {i \in UserIds : users[i].email = e /\ users[i].is_active}
              IN /\ act = {} =>
                      req'[p].pc = "done" /\ req'[p].result = AccountNotFound
                 /\ (act # {} /\ \A i \in act : users[i].password_hash # hash_password(pw)) =>
                      req'[p].pc = "done" /\ req'[p].result = InvalidCredentials
                 /\ req'[p].pc = "done" =>
                      /\ req'[p].result \in {AccountNotFound, InvalidCredentials}
                      /\ req'[p].access = NoClaims /\ req'[p].refresh = NoToken
                      /\ UNCHANGED <<users, tokens, nextTok, issued>>
      ]_vars

C8_Witness ==
    \E p \in Procs :
        /\ Finished(p, "login") /\ req[p].result = AccountNotFound
        /\ \E i \in UserIds : users[i].email = req[p].email /\ ~users[i].is_active

\* C9: every logout is acknowledged with the same message; one presenting a
\* token that has no row (unknown or already revoked) raises nothing, leaves
\* the ledger and the users as they were, and its revoke reports false.
C9_LogoutIdempotent ==
    [][\A p \in Procs, t \in TokenInputs :
          Logout(p, t) =>
              /\ req'[p].pc = "done" /\ req'[p].result = LoggedOut
              /\ Rows(t) = {} =>
                    /\ req'[p].revoked = FALSE
                    /\ UNCHANGED <<users, tokens>>
      ]_vars

C9_Witness ==
    \E p \in Procs :
        /\ Finished(p, "logout") /\ req[p].result = LoggedOut
        /\ ~req[p].revoked
        /\ req[p].token # UnknownToken

\* C10: a logout deletes the one row holding the presented value, if any, and
\* no other row and no user row; a value without a row never gets one again,
\* and a Refresh presenting it fails with InvalidOrExpiredToken.
C10_LogoutFrame ==
    [][/\ \A p \in Procs, t \in TokenInputs :
             /\ Logout(p, t) =>
                   /\ tokens' = tokens \ Rows(t)
                   /\ Cardinality(Rows(t)) <= 1
                   /\ req'[p].revoked = (Rows(t) # {})
                   /\ users' = users
             /\ (Refresh(p, t) /\ Rows(t) = {}) =>
                   req'[p].pc = "done" /\ req'[p].result = InvalidOrExpiredToken
       /\ \A t \in 1..(nextTok - 1) :
             Rows(t) = {} => \A r \in tokens' : r.token # t
      ]_vars

C10_Witness ==
    \E p \in Procs :
        /\ Finished(p, "logout") /\ req[p].revoked
        /\ Cardinality({r.user_id : r \in tokens}) = 2

OwnedBy(rows, user_id) == {r \in rows : r.user_id = user_id}

\* C11: Delete account removes from the ledger exactly the refresh tokens of
\* its user and from the reviews exactly that user's rows; when it has
\* succeeded, the user has no token and no review, the user's row is still
\* there, inactive, with email deleted_<id>@deleted.com, username
\* deleted_<id> and no google id, and every other row is as before.
C11_DeleteAccount ==
    [][\A p \in Procs :
          LET u == req[p].user
          IN /\ DeleteRevoke(p) =>
                   /\ tokens' = tokens \ OwnedBy(tokens, u)
                   /\ reviews' = reviews \ OwnedBy(reviews, u)
                   /\ req'[p].pc = "delete_tombstone"
             /\ DeleteTombstone(p) =>
                   /\ req'[p].result = AccountDeleted
                   /\ OwnedBy(tokens', u) = {} /\ tokens' = tokens
                   /\ OwnedBy(reviews', u) = {} /\ reviews' = reviews
                   /\ Len(users') = Len(users)
                   /\ \A i \in UserIds \ {u} : users'[i] = users[i]
                   /\ ~users'[u].is_active
                   /\ users'[u].email = [local |-> Name("deleted_", u), domain |-> "deleted.com"]
                   /\ users'[u].username = Name("deleted_", u)
                   /\ users'[u].google_id = NoGoogleId
                   /\ users'[u].password_hash = users[u].password_hash
      ]_vars

C11_Witness ==
    \E p \in Procs :
        /\ Finished(p, "delete") /\ req[p].result = AccountDeleted
        /\ tokens # {}
        /\ users[req[p].user].password_hash = NoHash

\* C12: when Delete account has succeeded for a user, no row holds the email,
\* the username or the google id the user had, so create_user's checks pass
\* for them; a signup that passed its checks, and a Google sign-in that
\* passed them with a google id no row holds, adds a row with a new id, and a login or Google sign-in that goes on to issue tokens
\* does so for an active row holding the presented email.
C12_Reclaimable ==
    [][\A p \in Procs :
          /\ DeleteTombstone(p) =>
                LET old == users[req[p].user]
                IN /\ req'[p].result = AccountDeleted
                   /\ \A i \in 1..Len(users') :
                         /\ users'[i].email # old.email
                         /\ users'[i].username # old.username
                         /\ old.google_id # NoGoogleId =>
                               users'[i].google_id # old.google_id
          /\ \A e \in Emails, u \in Usernames, pw \in SignupPasswords :
                (Signup(p, e, u, pw) /\ ~EmailTaken(e) /\ ~UsernameTaken(u)) =>
                    req'[p].pc = "create_user"
          /\ (\/ CreateUser(p)
              \/ GoogleCreate(p) /\ ~GoogleIdViolation(NoUser, req[p].google_id)) =>
                /\ req'[p].pc \in {"signup_issue", "google_issue"}
                /\ req'[p].user = Len(users) + 1
                /\ Len(users') = Len(users) + 1
                /\ \A i \in UserIds : users'[i] = users[i]
                /\ users'[req'[p].user].is_active
                /\ users'[req'[p].user].email = req[p].email
                /\ users'[req'[p].user].username = req[p].username
          /\ \A g \in GoogleIdentities :
                (GoogleSignin(p, g) /\ g.email_verified /\ ~EmailTaken(g.email)) =>
                    req'[p].pc = "google_create"
          /\ \A e \in LoginEmails, pw \in Passwords :
                (Login(p, e, pw) /\ req'[p].pc = "login_issue") =>
                    /\ users[req'[p].user].is_active
                    /\ users[req'[p].user].email = e
      ]_vars

\* a login has succeeded for a second user holding the email under which the
\* first, now deleted, user was issued an access token
C12_Witness ==
    \E p \in Procs :
        /\ Finished(p, "login") /\ req[p].result = OK
        /\ req[p].user = 2 /\ ~users[1].is_active
        /\ users[2].username \in Usernames
        /\ \E t \in issued :
              /\ t.payload["sub"] = 1
              /\ Get(t.payload, "email", NoEmail) = users[2].email

\* what Change password does for an authenticated user, for C13
PasswordChange(p, b, c, n, oldFails) ==
    LET u == get_current_user(b)
        email == users[u].email
    IN (ChangePassword(p, b, c, n) /\ u # NoUser) =>
          IF users[u].password_hash = hash_password(c)
          THEN /\ req'[p].result = PasswordChanged
               /\ users' = [users EXCEPT ![u].password_hash = hash_password(n)]
               /\ authenticate_user_error(email, n)' = OK
               /\ oldFails => authenticate_user_error(email, c)' = InvalidCredentials
          ELSE /\ req'[p].result = IncorrectCurrentPassword
               /\ users' = users

\* C13 (as claimed): a Change password whose current password does not
\* verify fails and leaves the users as they were; one whose current password
\* verifies replaces the hash, after which authenticate_user accepts the new
\* password and rejects the old one.
C13_AsClaimed ==
    [][\A p \in Procs, b \in BearerInputs, c \in Passwords, n \in NewPasswords :
          PasswordChange(p, b, c, n, TRUE)
      ]_vars

\* C13 (amended): as above, the old password being rejected afterwards when
\* the new password differs from it.
C13_ChangePassword ==
    [][\A p \in Procs, b \in BearerInputs, c \in Passwords, n \in NewPasswords :
          PasswordChange(p, b, c, n, c # n)
      ]_vars

\* a login has succeeded with the password set by Change password
C13_Witness ==
    \E p \in Procs :
        /\ Finished(p, "login") /\ req[p].result = OK
        /\ \E n \in NewPasswords \ SignupPasswords :
              users[req[p].user].password_hash = hash_password(n)

\* the request slot p is taken by a protected endpoint presenting bearer b
Protected(p, b) ==
    \/ GetProfile(p, b)
    \/ Scrape(p, b)
    \/ DeleteAccount(p, b)
    \/ \E u \in Usernames : UpdateProfile(p, b, u)
    \/ \E c \in Passwords, n \in NewPasswords : ChangePassword(p, b, c, n)

\* the bearer was signed by this server for an active user and is not expired
Genuine(b) ==
    /\ b \in issued
    /\ ~(b.payload["exp"] < now)
    /\ b.payload["sub"] \in UserIds
    /\ users[b.payload["sub"]].is_active

\* C14: a protected endpoint presented with a bearer that is not a genuine
\* one answers Unauthorized, having identified no user and changed nothing;
\* presented with a genuine one it goes on as the user whose id is the
\* token's subject, and does not answer Unauthorized.
C14_AuthenticationCheck ==
    [][\A p \in Procs, b \in BearerInputs :
          Protected(p, b) =>
              IF Genuine(b)
              THEN /\ req'[p].user = b.payload["sub"]
                   /\ req'[p].result # Unauthorized
              ELSE /\ req'[p].pc = "done"
                   /\ req'[p].result = Unauthorized
                   /\ req'[p].user = NoUser
                   /\ UNCHANGED <<users, tokens, reviews, issued>>
      ]_vars

\* the profile of the second user is returned while a bearer of the first
\* user, since deleted, is still unexpired
C14_Witness ==
    \E p \in Procs :
        /\ Finished(p, "profile") /\ req[p].result = OK
        /\ req[p].user = 2
        /\ \E t \in issued :
              /\ t.payload["sub"] = 1 /\ ~(t.payload["exp"] < now)
              /\ ~users[1].is_active

\* C15: verify_access_token raises 'Invalid or expired token' for a token
\* that is no JWT, is not signed with the server's key or has an exp before
\* the clock; for a token that passes these it raises 'Invalid token type'
\* when its type claim is absent or not "access", and returns the token's
\* claims otherwise.
C15_VerifyAccessToken ==
    [][\A p \in Procs, t \in AccessTokenInputs :
          VerifyAccessToken(p, t) =>
              LET signed == t # NotAToken /\ t.key = JWT_SECRET_KEY
                  expired == "exp" \in DOMAIN t.payload /\ t.payload["exp"] < now
                  access == "type" \in DOMAIN t.payload /\ t.payload["type"] = "access"
              IN /\ (~signed \/ expired) => req'[p].result = InvalidToken
                 /\ (signed /\ ~expired /\ ~access) => req'[p].result = WrongTokenType
                 /\ (signed /\ ~expired /\ access) =>
                       /\ req'[p].result = OK
                       /\ verify_access_token(t).payload = t.payload
                 /\ req'[p].result # OK => verify_access_token(t).payload = NoClaims
      ]_vars

\* a signed token of type "refresh", at the last instant of its validity,
\* has been refused for its type
C15_Witness ==
    \E p \in Procs :
        /\ Finished(p, "verify") /\ req[p].result = WrongTokenType
        /\ req[p].access.payload = [sub |-> 1, exp |-> now, type |-> "refresh"]

\* C16: whatever the ledger and the user table hold, verify_access_token
\* returns the claims of every access token the server has issued whose exp
\* is not before the clock: after the logout of its refresh token, after the
\* rotation, and after all refresh tokens of its subject were revoked.
C16_AccessTokenStateless ==
    \A t \in issued :
        ~(t.payload["exp"] < now) =>
            verify_access_token(t) = [error |-> OK, payload |-> t.payload]

\* a logout has revoked the last refresh token of the subject of an access
\* token that is not expired
C16_Witness ==
    \E p \in Procs :
        /\ Finished(p, "logout") /\ req[p].revoked
        /\ \E t \in issued :
              /\ ~(t.payload["exp"] < now)
              /\ users[t.payload["sub"]].is_active
              /\ OwnedBy(tokens, t.payload["sub"]) = {}
              /\ BagToSet(consumed) # {}

\* C17: a Google sign-in whose identity is not attested as verified answers
\* 'Google email not verified'; it returns no token and leaves the users,
\* the ledger and the issued tokens as they were.
C17_UnverifiedEmail ==
    [][\A p \in Procs, g \in GoogleIdentities :
          (GoogleSignin(p, g) /\ ~g.email_verified) =>
              /\ req'[p].pc = "done"
              /\ req'[p].result = UnverifiedEmail
              /\ req'[p].user = NoUser
              /\ req'[p].access = NoClaims /\ req'[p].refresh = NoToken
              /\ UNCHANGED <<users, tokens, nextTok, issued, reviews>>
      ]_vars

\* refused while an active user without google id holds the email
C17_Witness ==
    \E p \in Procs :
        /\ Finished(p, "google") /\ req[p].result = UnverifiedEmail
        /\ \E g \in GoogleIdentities, i \in UserIds :
              /\ ~g.email_verified
              /\ users[i].email = g.email /\ users[i].is_active
              /\ users[i].google_id = NoGoogleId

\* C18 (as claimed): a Google sign-in with a verified email goes on, for an
\* active user holding the email, to set that user's google id if it was
\* absent (and only then) and to issue tokens for that user, adding no row;
\* when no active user holds the email, it adds one active row with the
\* email, the subject as google id and no password hash, and issues tokens
\* for the new user.
C18_FederatedSignin ==
    [][\A p \in Procs :
          /\ \A g \in GoogleIdentities :
                (GoogleSignin(p, g) /\ g.email_verified) =>
                    /\ users' = users
                    /\ EmailTaken(g.email) =>
                          /\ req'[p].user = get_user_by_email(g.email)
                          /\ req'[p].pc =
                                IF users[req'[p].user].google_id = NoGoogleId
                                THEN "google_backfill" ELSE "google_issue"
                    /\ ~EmailTaken(g.email) => req'[p].pc = "google_create"
          /\ GoogleBackfill(p) =>
                /\ req'[p].pc = "google_issue"
                /\ users' = [users EXCEPT ![req[p].user].google_id = req[p].google_id]
          /\ GoogleCreate(p) =>
                /\ req'[p].pc = "google_issue"
                /\ req'[p].user = Len(users) + 1
                /\ users' = Append(users, [email |-> req[p].email,
                                           username |-> req[p].username,
                                           password_hash |-> NoHash,
                                           google_id |-> req[p].google_id,
                                           is_active |-> TRUE])
          /\ GoogleIssue(p) =>
                /\ users' = users
                /\ req'[p].result = OK
                /\ req'[p].access.payload["sub"] = req[p].user
                /\ \E r \in tokens' \ tokens :
                      r.token = req'[p].refresh /\ r.user_id = req[p].user
      ]_vars

\* the active users
ActiveIds == {i \in UserIds : users[i].is_active}

\* C20: no two active users hold the same email, and no two the same
\* username, whatever the interleaving of sign-ups, Google sign-ins, profile
\* updates and account deletions.
C20_UniqueIdentifiers ==
    \A i, j \in ActiveIds :
        i # j => /\ users[i].email # users[j].email
                 /\ users[i].username # users[j].username

\* of two sign-ups that both passed create_user's checks, the second to
\* commit was refused by the datastore
C20_Witness ==
    \E p \in Procs :
        /\ Finished(p, "signup") /\ req[p].result = SignupFailed
        /\ Cardinality(ActiveIds) = 1

\* the usernames the rows hold
TakenUsernames == {users[i].username : i \in UserIds}

\* C19: the username generated for an email is the local part when no row
\* holds it, else the local part followed by the least k >= 1 for which no
\* row holds the result; no row holds the generated username.
C19_UsernameGeneration ==
    [][\A p \in Procs, e \in GoogleEmails :
          GenerateUsername(p, e) =>
              LET got == req'[p].username
                  free == {k \in 1..9 : Suffixed(e.local, k) \notin TakenUsernames}
              IN /\ got \notin TakenUsernames
                 /\ e.local \notin TakenUsernames => got = e.local
                 /\ e.local \in TakenUsernames =>
                       \E k \in free :
                           /\ got = Suffixed(e.local, k)
                           /\ \A j \in free : k <= j
      ]_vars

\* with jane and jane1 taken, jane@x.com has yielded jane2
C19_Witness ==
    \E p \in Procs :
        /\ Finished(p, "username")
        /\ req[p].email = Addr("jane", "x.com")
        /\ {Name("jane", 0), Name("jane", 1)} \subseteq TakenUsernames
        /\ req[p].username = Name("jane", 2)

\* C21 (as claimed): every user row without a password hash has a google id.
C21_AsClaimed ==
    \A i \in UserIds :
        users[i].password_hash = NoHash => users[i].google_id # NoGoogleId

\* C21 (amended): every active user row without a password hash has a google
\* id; the row of a deleted Google user has neither.
C21_HashOrGoogleId ==
    \A i \in ActiveIds :
        users[i].password_hash = NoHash => users[i].google_id # NoGoogleId

\* a Change password was refused for an active user without a hash, after
\* another user was deleted
C21_Witness ==
    \E p \in Procs :
        /\ Finished(p, "password") /\ req[p].result = IncorrectCurrentPassword
        /\ req[p].user \in ActiveIds
        /\ users[req[p].user].password_hash = NoHash
        /\ ActiveIds # UserIds

\* C22: no step removes a user row: every id that exists exists in the next
\* state, and a Delete account that succeeds leaves the number of rows as it
\* was and its user's row in place, inactive.
C22_NoHardDelete ==
    [][/\ Len(users') >= Len(users)
       /\ \A p \in Procs :
             DeleteTombstone(p) =>
                 /\ Len(users') = Len(users)
                 /\ req'[p].result = AccountDeleted
                 /\ ~users'[req[p].user].is_active
      ]_vars

\* a sign-up has added a second row after the first user was deleted
C22_Witness ==
    \E p \in Procs :
        /\ Finished(p, "signup") /\ req[p].result = OK
        /\ Len(users) = 2
        /\ ~users[1].is_active /\ users[2].is_active

\* C23: no two rows of the ledger hold the same token value, so a value has
\* one owner; create_refresh_token for a value a row already holds fails and
\* leaves the ledger as it was, and for any other value adds the one row.
C23_TokenUnique ==
    [][/\ \A r1, r2 \in tokens' : r1.token = r2.token => r1 = r2
       /\ \A p \in Procs, t \in LedgerValues, u \in UserIds :
             CreateRefreshToken(p, t, u) =>
                 IF Rows(t) # {}
                 THEN /\ req'[p].result = DuplicateToken
                      /\ req'[p].refresh = NoToken
                      /\ tokens' = tokens
                 ELSE /\ req'[p].result = OK
                      /\ Rows(t)' = {StoredRow(t, u)}
                      /\ tokens' \ Rows(t)' = tokens
      ]_vars

\* a value held by a row of one user, not yet expired, was refused when it
\* was to be stored for the other user at a later instant
C23_Witness ==
    \E p \in Procs :
        /\ Finished(p, "store") /\ req[p].result = DuplicateToken
        /\ \E r \in tokens :
              /\ r.token = req[p].token /\ r.user_id # req[p].user
              /\ r.expires_at # StoredRow(r.token, r.user_id).expires_at

\* C24: a login that goes on to issue tokens does so for the active user
\* holding the email, whose hash is that of the password; issuing adds to the
\* ledger exactly one row, of a value no row held, owned by that user and
\* found valid, leaves every other row in place and every token found valid
\* before found valid for the same user, the users as they were, and returns
\* that value with an access token whose subject is the user's id.
C24_LoginFrame ==
    [][\A p \in Procs :
          /\ \A e \in LoginEmails, pw \in Passwords :
                (Login(p, e, pw) /\ req'[p].pc = "login_issue") =>
                    LET u == req'[p].user
                    IN /\ u \in ActiveIds
                       /\ users[u].email = e
                       /\ users[u].password_hash = hash_password(pw)
                       /\ UNCHANGED <<users, tokens, issued>>
          /\ LoginIssue(p) =>
                LET u == req[p].user
                    new == tokens' \ tokens
                IN /\ req'[p].pc = "done" /\ req'[p].result = OK
                   /\ req'[p].user = u
                   /\ tokens \subseteq tokens'
                   /\ Cardinality(new) = 1
                   /\ \A r \in new :
                         /\ r.user_id = u
                         /\ r.token = req'[p].refresh
                         /\ Rows(r.token) = {}
                   /\ \A r \in new : r.expires_at > now'
                   /\ \A t \in 1..(nextTok - 1) :
                         verify_refresh_token(t)' = verify_refresh_token(t)
                   /\ req'[p].access.payload["sub"] = u
                   /\ req'[p].access \in issued'
                   /\ users' = users
      ]_vars

\* a login has succeeded for a user who still holds the unexpired tokens of
\* the sign-up and of an earlier login
C24_Witness ==
    \E p \in Procs :
        /\ Finished(p, "login") /\ req[p].result = OK
        /\ Cardinality({r \in OwnedBy(tokens, req[p].user) : r.expires_at > now}) = 3

\* C25 (as claimed): the token create_access_token returns carries the
\* supplied claims other than exp and type, an issued-at claim holding the
\* clock, exp = the clock + the access-token lifetime, and type "access",
\* whatever exp and type the supplied claims held.
C25_IssueAccessToken ==
    [][\A p \in Procs, d \in DataInputs :
          CreateAccessToken(p, d) =>
              LET c == req'[p].access.payload
              IN /\ \A k \in DOMAIN d \ {"exp", "type", "iat"} :
                       k \in DOMAIN c /\ c[k] = d[k]
                 /\ "exp" \in DOMAIN c
                 /\ c["exp"] = now + JWT_ACCESS_TOKEN_EXPIRE_MINUTES
                 /\ "type" \in DOMAIN c /\ c["type"] = "access"
                 /\ "iat" \in DOMAIN c /\ c["iat"] = now
      ]_vars

\* C26 (as claimed): no row of the ledger that verify_refresh_token finds
\* valid is owned by an inactive user, in any interleaving of the requests.
C26_NoTokenOfDeleted ==
    \A r \in tokens :
        r.expires_at > now => users[r.user_id].is_active

\* the bearer was signed by this server for a user since deleted
OfDeleted(b) ==
    /\ b \in issued
    /\ b.payload["sub"] \in UserIds \ ActiveIds

\* C27: a protected endpoint presented with an access token the server
\* issued to a user whose row is now inactive answers Unauthorized, whether
\* or not the token has expired; it identifies no user and leaves the users,
\* the ledger and the reviews as they were.
C27_DeletedUserUnauthorized ==
    [][\A p \in Procs, b \in BearerInputs :
          (Protected(p, b) /\ OfDeleted(b)) =>
              /\ req'[p].pc = "done"
              /\ req'[p].result = Unauthorized
              /\ req'[p].user = NoUser
              /\ UNCHANGED <<users, tokens, reviews, issued>>
      ]_vars

\* a Delete account was refused while a deleted user's access token is
\* unexpired and verifies, another user being active
C27_Witness ==
    \E p \in Procs :
        /\ Finished(p, "delete") /\ req[p].result = Unauthorized
        /\ ActiveIds # {}
        /\ \E t \in issued : OfDeleted(t) /\ ~(t.payload["exp"] < now)
                               /\ verify_access_token(t).error = OK

\* C28: a Change password, accepted or refused, leaves the ledger as it was,
\* so every token is found valid for the same user as before; a Refresh
\* presenting a token the ledger finds valid is accepted whatever the
\* password of its owner has become, and returns success.
C28_PasswordLeavesLedger ==
    [][\A p \in Procs :
          /\ \A b \in BearerInputs, c \in Passwords, n \in NewPasswords :
                ChangePassword(p, b, c, n) =>
                    /\ UNCHANGED <<tokens, nextTok, consumed>>
                    /\ \A t \in TokenInputs :
                          verify_refresh_token(t)' = verify_refresh_token(t)
          /\ \A t \in TokenInputs :
                (Refresh(p, t) /\ ValidRows(t) # {}) =>
                    /\ req'[p].pc = "refresh_issue"
                    /\ req'[p].user = verify_refresh_token(t)
          /\ RefreshRevoke(p) => req'[p].result = OK
      ]_vars

\* the refresh token of the sign-up has been redeemed after its owner's
\* password was changed
C28_Witness ==
    \E p \in Procs :
        /\ Finished(p, "refresh") /\ req[p].result = OK
        /\ req[p].token = 1 /\ req[p].user = 1
        /\ users[1].password_hash = hash_password("pw2")

Federated == {i \in UserIds : users[i].password_hash = NoHash}

\* C30: while the active user holding an email has no password hash, a login
\* with that email fails with InvalidCredentials for every password, issuing
\* nothing; a Change password by a user without a hash is refused for every
\* current password; no step gives such a user a hash; and a refresh token
\* or access token is issued to such a user by Google sign-in or Refresh only.
C30_FederatedCredentials ==
    [][/\ \A p \in Procs :
             /\ \A e \in LoginEmails, pw \in Passwords :
                   (Login(p, e, pw) /\ get_user_by_email(e) \in Federated) =>
                       /\ req'[p].pc = "done"
                       /\ req'[p].result = InvalidCredentials
                       /\ req'[p].access = NoClaims /\ req'[p].refresh = NoToken
                       /\ UNCHANGED <<users, tokens, nextTok, issued>>
             /\ \A b \in BearerInputs, c \in Passwords, n \in NewPasswords :
                   (ChangePassword(p, b, c, n) /\ get_current_user(b) \in Federated) =>
                       /\ req'[p].result = IncorrectCurrentPassword
                       /\ users' = users
       /\ \A i \in Federated : users'[i].password_hash = NoHash
       /\ \A r \in tokens' \ tokens :
             r.user_id \in Federated =>
                 \E p \in Procs : GoogleIssue(p) \/ RefreshIssue(p)
       /\ \A t \in issued' \ issued :
             t.payload["sub"] \in Federated =>
                 \E p \in Procs : GoogleIssue(p) \/ RefreshIssue(p)
      ]_vars

\* a login was refused for the email of a user Google sign-in created, no
\* user having a password hash and a refresh token having been rotated
C30_Witness ==
    \E p \in Procs :
        /\ Finished(p, "login") /\ req[p].result = InvalidCredentials
        /\ get_user_by_email(req[p].email) \in Federated
        /\ BagToSet(consumed) # {}
        /\ \A i \in UserIds : users[i].password_hash = NoHash

====
